---- MODULE Spec2Model ----
(***************************************************************************)
(* rhubarb_bridge.py: the annotated-script parser (parse_annotated_text)   *)
(* and the schedule builder of main (tag resolver loop, phoneme loop,      *)
(* per-section compaction and write).                                      *)
(*                                                                         *)
(* Text is a sequence of one-character strings.  A time is a natural       *)
(* number of tenths of a millisecond; the string produced by the format    *)
(* f"{t:.3f}" is modelled by the number of milliseconds it shows.          *)
(* A schedule line "time,category,value" is the record of its three        *)
(* comma-separated fields.                                                 *)
(***************************************************************************)
EXTENDS Integers, Sequences, FiniteSets, TLC

VARIABLES text, lines, l_cur, words, tags, current_word_idx, current_para_idx,
          rhubarb_data, vosk_words, sections, last_l_idx, last_p_idx, pose,
          t_cur, c_cur, time_str, sec_i, out, pc

vars == <<text, lines, l_cur, words, tags, current_word_idx, current_para_idx,
          rhubarb_data, vosk_words, sections, last_l_idx, last_p_idx, pose,
          t_cur, c_cur, time_str, sec_i, out, pc>>

parserVars == <<lines, l_cur, words, tags, current_word_idx, current_para_idx>>

mainVars == <<rhubarb_data, vosk_words, sections, last_l_idx, last_p_idx, pose,
              t_cur, c_cur, time_str, sec_i, out>>

(***************************************************************************)
(* Bounds of the model.                                                    *)
(***************************************************************************)
MaxLines == 2
MaxChars == 4
MaxWords == 2
MaxCues == 1
MaxTags == 6

(***************************************************************************)
(* Characters and the regular-expression classes the parser uses.          *)
(***************************************************************************)
NL == "\n"

IsSpace(c) == c \in {" ", "\t", NL}

\* the letters that occur in the scripts and emotion names of this model
Letters == {"a", "c", "d", "e", "f", "g", "h", "i", "k", "l", "m", "n", "o",
            "p", "q", "r", "s", "t", "u", "w", "x", "y", "H", "M"}

IsWordChar(c) == c \in Letters \cup {"0", "1", "_"}

LowerMap == ("H" :> "h") @@ ("M" :> "m")

Lower(c) == IF c \in DOMAIN LowerMap THEN LowerMap[c] ELSE c

LowerAll(s) == [k \in 1..Len(s) |-> Lower(s[k])]

emotions_map ==
    (<<"e", "x", "p", "l", "a", "i", "n">> :> 0) @@
    (<<"h", "a", "p", "p", "y">> :> 1) @@
    (<<"s", "a", "d">> :> 2) @@
    (<<"a", "n", "g", "r", "y">> :> 3) @@
    (<<"c", "o", "n", "f", "u", "s", "e", "d">> :> 4) @@
    (<<"r", "q">> :> 5)

RHUBARB_MAP ==
    [A |-> "m", B |-> "t", C |-> "a", D |-> "a", E |-> "u", F |-> "au",
     G |-> "f", H |-> "y", X |-> "m"]

Digit == <<"0", "1", "2", "3", "4", "5", "6", "7", "8", "9">>

RECURSIVE DecStr(_)
DecStr(n) == IF n < 10 THEN Digit[n + 1]
             ELSE DecStr(n \div 10) \o Digit[(n % 10) + 1]

(***************************************************************************)
(* text.split('\n'): the pieces between newlines; a text with n newlines   *)
(* gives n + 1 pieces, the empty text gives one empty piece.               *)
(***************************************************************************)
RECURSIVE SplitFrom(_, _, _)
SplitFrom(s, k, cur) ==
    IF k > Len(s) THEN <<cur>>
    ELSE IF s[k] = NL THEN <<cur>> \o SplitFrom(s, k + 1, <<>>)
    ELSE SplitFrom(s, k + 1, Append(cur, s[k]))

\* variant: text.splitlines(), which drops the empty piece after a final newline
SplitLines(s) ==
    IF s = <<>> THEN <<>>
    ELSE IF s[Len(s)] = NL THEN SplitFrom(SubSeq(s, 1, Len(s) - 1), 1, <<>>)
    ELSE SplitFrom(s, 1, <<>>)

Split(s) == SplitFrom(s, 1, <<>>)

\* not line.strip()
IsBlank(line) == \A k \in 1..Len(line) : IsSpace(line[k])

(***************************************************************************)
(* re.findall(r'<[^>]+>|\[[^\]]+\]|\S+', line): scan left to right; at     *)
(* each position try the three alternatives in order.                      *)
(***************************************************************************)
\* the position of the first `close` at or after k, 0 when there is none
RECURSIVE FirstAt(_, _, _)
FirstAt(line, k, close) ==
    IF k > Len(line) THEN 0
    ELSE IF line[k] = close THEN k
    ELSE FirstAt(line, k + 1, close)

\* end of the match of  open [^close]+ close  starting at k, 0 when no match
BracketEnd(line, k, open, close) ==
    IF line[k] = open /\ k + 1 <= Len(line) /\ line[k + 1] # close
    THEN FirstAt(line, k + 2, close)
    ELSE 0

\* end of the maximal run of non-whitespace starting at k
RECURSIVE RunEnd(_, _)
RunEnd(line, k) ==
    IF k + 1 <= Len(line) /\ ~IsSpace(line[k + 1]) THEN RunEnd(line, k + 1)
    ELSE k

MatchEnd(line, k) ==
    IF BracketEnd(line, k, "<", ">") # 0 THEN BracketEnd(line, k, "<", ">")
    ELSE IF BracketEnd(line, k, "[", "]") # 0 THEN BracketEnd(line, k, "[", "]")
    ELSE IF ~IsSpace(line[k]) THEN RunEnd(line, k)
    ELSE 0

RECURSIVE FindAll(_, _)
FindAll(line, k) ==
    IF k > Len(line) THEN <<>>
    ELSE IF MatchEnd(line, k) = 0 THEN FindAll(line, k + 1)
    ELSE <<SubSeq(line, k, MatchEnd(line, k))>>
             \o FindAll(line, MatchEnd(line, k) + 1)

Tokens(line) == FindAll(line, 1)

(***************************************************************************)
(* The three branches of the token loop of parse_annotated_text.           *)
(***************************************************************************)
\* token.startswith('<') and token.endswith('>')
IsAngle(token) == token[1] = "<" /\ token[Len(token)] = ">"

\* token.startswith('[') and token.endswith(']')
IsSquare(token) == token[1] = "[" /\ token[Len(token)] = "]"

\* token[1:-1].lower()
EmotionName(token) == LowerAll(SubSeq(token, 2, Len(token) - 1))

\* variant: the token is kept as it is
CleanWordNoStrip(token) == token

\* re.sub(r'[^\w\s]', '', token)
CleanWord(token) == SelectSeq(token, LAMBDA c : IsWordChar(c) \/ IsSpace(c))

Tag(w, type, val, l, p) ==
    [word_idx |-> w, type |-> type, val |-> val, l_idx |-> l, p_idx |-> p]

EmotionTag(w, token, l, p) == Tag(w, "emotion", emotions_map[EmotionName(token)], l, p)

ImageTag(w, l, p) == Tag(w, "image", l, l, p)

\* variant: the never-updated current_line_idx (line 31) instead of l_idx
AutoTagStale(w, l, p) ==
    [word_idx |-> w, type |-> "image_auto", val |-> 0, l_idx |-> 0, p_idx |-> p]

AutoTag(w, l, p) == Tag(w, "image_auto", l, l, p)

\* one iteration of `for token in tokens`; st = [words, tags, idx]
TokenStep(st, token, l, p) ==
    IF IsAngle(token)
    THEN IF EmotionName(token) \in DOMAIN emotions_map
         THEN [st EXCEPT !.tags = Append(@, EmotionTag(st.idx, token, l, p))]
         ELSE st
    ELSE IF IsSquare(token)
    THEN [st EXCEPT !.tags = Append(@, ImageTag(st.idx, l, p))]
    ELSE IF CleanWord(token) # <<>>
    THEN [st EXCEPT !.words = Append(@, CleanWord(token)), !.idx = @ + 1]
    ELSE st

RECURSIVE TokenLoop(_, _, _, _, _)
TokenLoop(st, toks, k, l, p) ==
    IF k > Len(toks) THEN st
    ELSE TokenLoop(TokenStep(st, toks[k], l, p), toks, k + 1, l, p)

\* variant: the blank test is missing
ParaNoBlankTest(line, l, p) == IF l > 0 THEN p + 1 ELSE p

\* the paragraph index in force for line l (0-based), given the one before
ParaStep(line, l, p) == IF IsBlank(line) /\ l > 0 THEN p + 1 ELSE p

(***************************************************************************)
(* main: time lookup, formatting and the schedule lines.                   *)
(***************************************************************************)
\* variant: past the end, the last word's start instead of its end
TagTimeLastStart(tag, vw) ==
    IF tag.word_idx < Len(vw) THEN vw[tag.word_idx + 1].start
    ELSE IF Len(vw) > 0 THEN vw[Len(vw)].start
    ELSE 0

\* variant: past the end, the first word's end instead of the last's
TagTimeFirstEnd(tag, vw) ==
    IF tag.word_idx < Len(vw) THEN vw[tag.word_idx + 1].start
    ELSE IF Len(vw) > 0 THEN vw[1].end
    ELSE 0

\* lines 141-147: the time of a tag, by its word index
TagTime(tag, vw) ==
    IF tag.word_idx < Len(vw) THEN vw[tag.word_idx + 1].start
    ELSE IF Len(vw) > 0 THEN vw[Len(vw)].end
    ELSE 0

\* f"{t:.3f}": t in tenths of a millisecond, the result in milliseconds
\* (rounded to nearest; the time sets below hold no exact halves)
Fmt3(t) == (t + 5) \div 10

Line(ms, cat, val) == [time |-> ms, cat |-> cat, val |-> val]

\* line.split(',')[-1]
LastField(line) == line.val

\* variant: pose + 1 % 5, which never wraps
PoseNoWrap(p) == p + (1 % 5)

PoseNext(p) == (p + 1) % 5

\* RHUBARB_MAP.get(value, 'm')
Shape(v) == IF v \in DOMAIN RHUBARB_MAP THEN RHUBARB_MAP[v] ELSE "m"

\* lines 127-133
Defaults ==
    [i \in 0..4 |->
        CASE i = 0 -> <<Line(0, "paragraph", "0")>>
          [] i = 1 -> <<Line(0, "emotion", "0")>>
          [] i = 2 -> <<Line(0, "image", "0")>>
          [] i = 3 -> <<Line(0, "pose", "0")>>
          [] OTHER -> <<>>]

\* variant: the first line is not a change
LineChangedNotFirst(l, last) == l # last /\ last # -1

\* l_idx != last_l_idx
LineChanged(l, last) == l # last

\* p_idx != last_p_idx
ParaChanged(p, last) == p # last

\* lines 173-179: last_val is <<>> for None, <<v>> for the value v
RECURSIVE DedupLoop(_, _, _, _)
DedupLoop(section_lines, k, unique_lines, last_val) ==
    IF k > Len(section_lines) THEN unique_lines
    ELSE IF <<LastField(section_lines[k])>> # last_val
    THEN DedupLoop(section_lines, k + 1, Append(unique_lines, section_lines[k]),
                   <<LastField(section_lines[k])>>)
    ELSE DedupLoop(section_lines, k + 1, unique_lines, last_val)

\* variant: last_val starts as "0" instead of None
DedupFromZero(section_lines) == DedupLoop(section_lines, 1, <<>>, <<"0">>)

\* variant: a value is kept only the first time it is seen
RECURSIVE DedupSeenLoop(_, _, _, _)
DedupSeenLoop(section_lines, k, unique_lines, seen) ==
    IF k > Len(section_lines) THEN unique_lines
    ELSE IF LastField(section_lines[k]) \notin seen
    THEN DedupSeenLoop(section_lines, k + 1, Append(unique_lines, section_lines[k]),
                       seen \cup {LastField(section_lines[k])})
    ELSE DedupSeenLoop(section_lines, k + 1, unique_lines, seen)

DedupSeen(section_lines) == DedupSeenLoop(section_lines, 1, <<>>, {})

Dedup(section_lines) == DedupLoop(section_lines, 1, <<>>, <<>>)

Delimiter == [text |-> "SECTION"]
EmptyLine == [text |-> ""]

\* the lines of  "\n".join(unique_lines) + "\n"
JoinedLines(unique_lines) ==
    IF unique_lines = <<>> THEN <<EmptyLine>> ELSE unique_lines

\* lines 180-182
Written(i, unique_lines) ==
    JoinedLines(unique_lines) \o (IF i < 4 THEN <<Delimiter>> ELSE <<>>)

(***************************************************************************)
(* Inputs.                                                                 *)
(***************************************************************************)
SeqsUpTo(S, n) == UNION {[1..k -> S] : k \in 0..n}

RECURSIVE JoinNL(_)
JoinNL(ls) == IF Len(ls) = 1 THEN ls[1]
              ELSE ls[1] \o <<NL>> \o JoinNL(Tail(ls))

LineChoices ==
    { <<>>,
      <<" ">>,
      <<"H", "i">>,
      <<"<", "H", "a", "p", "p", "y", ">", " ", "[", "l", "a", "k", "e", "]", " ", "H", "i">>,
      <<"<", "e", "x", "p", "l", "a", "i", "n", ">", " ", "H", "i", " ", "y", "o">> }

\* "Hello world\n<happy> [lake] More text\n"
ScenarioText ==
    <<"H", "e", "l", "l", "o", " ", "w", "o", "r", "l", "d", NL,
      "<", "h", "a", "p", "p", "y", ">", " ", "[", "l", "a", "k", "e", "]", " ",
      "M", "o", "r", "e", " ", "t", "e", "x", "t", NL>>

Scripts ==
    {JoinNL(ls) : ls \in SeqsUpTo(LineChoices, MaxLines) \ {<<>>}} \cup {ScenarioText}

WordRecs == { [start |-> 0, end |-> 5000],
              [start |-> 5000, end |-> 10000],
              [start |-> 10000, end |-> 15000] }

ScenarioWords == << [start |-> 0, end |-> 5000],
                    [start |-> 5000, end |-> 10000],
                    [start |-> 10000, end |-> 15000] >>

VoskLists == SeqsUpTo(WordRecs, MaxWords) \cup {ScenarioWords}

CueRecs == { [start |-> 0, value |-> "X"],
             [start |-> 4996, value |-> "C"],
             [start |-> 5004, value |-> "Z"] }

CueLists == SeqsUpTo(CueRecs, MaxCues)

SmallAlphabet == {"r", "q", "_", ".", " ", "<", ">", "[", "]", NL}

SmallTexts == SeqsUpTo(SmallAlphabet, MaxChars)

(***************************************************************************)
(* State machine.                                                          *)
(***************************************************************************)
NoMain ==
    /\ rhubarb_data = <<>>
    /\ vosk_words = <<>>
    /\ sections = [i \in 0..4 |-> <<>>]
    /\ last_l_idx = -1
    /\ last_p_idx = -1
    /\ pose = 0
    /\ t_cur = 0
    /\ c_cur = 0
    /\ time_str = 0
    /\ sec_i = 0
    /\ out = <<>>

\* lines 119-120 and 26-35: the text is read and split
StartParse(t) ==
    /\ text = t
    /\ lines = Split(t)
    /\ l_cur = 0
    /\ words = <<>>
    /\ tags = <<>>
    /\ current_word_idx = 0
    /\ current_para_idx = 0
    /\ pc = "parse"
    /\ NoMain

Init == \E t \in Scripts : StartParse(t)

\* lines 36-61: one iteration of the line loop
ParseLine ==
    /\ pc = "parse"
    /\ l_cur < Len(lines)
    /\ LET line == lines[l_cur + 1]
           p == ParaStep(line, l_cur, current_para_idx)
           st == TokenLoop([words |-> words, tags |-> tags, idx |-> current_word_idx],
                           Tokens(line), 1, l_cur, p)
       IN /\ current_para_idx' = p
          /\ words' = st.words
          /\ current_word_idx' = st.idx
          /\ tags' = Append(st.tags, AutoTag(st.idx, l_cur, p))
    /\ l_cur' = l_cur + 1
    /\ UNCHANGED <<text, lines, pc>>
    /\ UNCHANGED mainVars

\* line 63 and 122: the parser returns
ParseReturn ==
    /\ pc = "parse"
    /\ l_cur = Len(lines)
    /\ pc' = "rhubarb"
    /\ UNCHANGED text
    /\ UNCHANGED parserVars
    /\ UNCHANGED mainVars

\* line 124: the phoneme cues arrive
RunRhubarb ==
    /\ pc = "rhubarb"
    /\ \E cues \in CueLists : rhubarb_data' = cues
    /\ pc' = "vosk"
    /\ UNCHANGED text
    /\ UNCHANGED parserVars
    /\ UNCHANGED <<vosk_words, sections, last_l_idx, last_p_idx, pose,
                   t_cur, c_cur, time_str, sec_i, out>>

\* lines 125-137: the timed words arrive, the defaults are set
RunVosk ==
    /\ pc = "vosk"
    /\ \E vw \in VoskLists : vosk_words' = vw
    /\ sections' = Defaults
    /\ last_l_idx' = -1
    /\ last_p_idx' = -1
    /\ pose' = 0
    /\ pc' = "tags"
    /\ UNCHANGED text
    /\ UNCHANGED parserVars
    /\ UNCHANGED <<rhubarb_data, t_cur, c_cur, time_str, sec_i, out>>

\* lines 139-162: one iteration of the tag loop
ResolveTag ==
    /\ pc = "tags"
    /\ t_cur < Len(tags)
    /\ LET tag == tags[t_cur + 1]
           ts == Fmt3(TagTime(tag, vosk_words))
           isImg == tag.type = "image" \/ tag.type = "image_auto"
           newLine == isImg /\ LineChanged(tag.l_idx, last_l_idx)
           newPara == isImg /\ ParaChanged(tag.p_idx, last_p_idx)
           np == IF newLine THEN PoseNext(pose) ELSE pose
       IN /\ time_str' = ts
          /\ pose' = np
          /\ last_l_idx' = IF newLine THEN tag.l_idx ELSE last_l_idx
          /\ last_p_idx' = IF newPara THEN tag.p_idx ELSE last_p_idx
          /\ sections' =
               [i \in 0..4 |->
                  CASE i = 0 /\ newPara ->
                         Append(sections[0], Line(ts, "paragraph", DecStr(tag.p_idx)))
                    [] i = 1 /\ tag.type = "emotion" ->
                         Append(sections[1], Line(ts, "emotion", DecStr(tag.val)))
                    [] i = 2 /\ newLine ->
                         Append(sections[2], Line(ts, "image", DecStr(tag.l_idx)))
                    [] i = 3 /\ newLine ->
                         Append(sections[3], Line(ts, "pose", DecStr(np)))
                    [] OTHER -> sections[i]]
    /\ t_cur' = t_cur + 1
    /\ UNCHANGED <<text, pc, rhubarb_data, vosk_words, c_cur, sec_i, out>>
    /\ UNCHANGED parserVars

\* the tag loop ends
TagsDone ==
    /\ pc = "tags"
    /\ t_cur = Len(tags)
    /\ pc' = "cues"
    /\ UNCHANGED text
    /\ UNCHANGED parserVars
    /\ UNCHANGED mainVars

\* lines 165-168: one iteration of the cue loop
PhonemeCue ==
    /\ pc = "cues"
    /\ c_cur < Len(rhubarb_data)
    /\ LET cue == rhubarb_data[c_cur + 1]
       IN /\ time_str' = Fmt3(cue.start)
          /\ sections' = [sections EXCEPT
                ![4] = Append(@, Line(Fmt3(cue.start), "phoneme", Shape(cue.value)))]
    /\ c_cur' = c_cur + 1
    /\ UNCHANGED <<text, pc, rhubarb_data, vosk_words, last_l_idx, last_p_idx,
                   pose, t_cur, sec_i, out>>
    /\ UNCHANGED parserVars

\* the cue loop ends, the schedule file is opened
CuesDone ==
    /\ pc = "cues"
    /\ c_cur = Len(rhubarb_data)
    /\ pc' = "write"
    /\ UNCHANGED text
    /\ UNCHANGED parserVars
    /\ UNCHANGED mainVars

\* lines 171-182: one iteration of the section loop
WriteSection ==
    /\ pc = "write"
    /\ sec_i < 5
    /\ out' = out \o Written(sec_i, Dedup(sections[sec_i]))
    /\ sec_i' = sec_i + 1
    /\ pc' = IF sec_i = 4 THEN "done" ELSE "write"
    /\ UNCHANGED <<text, rhubarb_data, vosk_words, sections, last_l_idx,
                   last_p_idx, pose, t_cur, c_cur, time_str>>
    /\ UNCHANGED parserVars

Next ==
    \/ ParseLine
    \/ ParseReturn
    \/ RunRhubarb
    \/ RunVosk
    \/ ResolveTag
    \/ TagsDone
    \/ PhonemeCue
    \/ CuesDone
    \/ WriteSection

Spec == Init /\ [][Next]_vars

(***************************************************************************)
(* The parser alone, on every text over a small alphabet.                  *)
(***************************************************************************)
InitParse == \E t \in SmallTexts : StartParse(t)

NextParse == ParseLine \/ ParseReturn

SpecParse == InitParse /\ [][NextParse]_vars

(***************************************************************************)
(* The tag loop alone, on every ordered tag stream over a small set of     *)
(* tags (line indices that repeat and return included).                    *)
(***************************************************************************)
LoopTags == { Tag(0, "emotion", 1, 1, 0),
              Tag(0, "image", 0, 0, 0),
              Tag(1, "image_auto", 0, 0, 0),
              Tag(1, "image_auto", 1, 1, 1) }

TagStreams == SeqsUpTo(LoopTags, MaxTags)

LoopVosk == {<<>>, ScenarioWords}

InitLoop ==
    /\ text = <<>>
    /\ lines = <<>>
    /\ l_cur = 0
    /\ words = <<>>
    /\ tags \in TagStreams
    /\ current_word_idx = 0
    /\ current_para_idx = 0
    /\ rhubarb_data = <<>>
    /\ vosk_words \in LoopVosk
    /\ sections = Defaults
    /\ last_l_idx = -1
    /\ last_p_idx = -1
    /\ pose = 0
    /\ t_cur = 0
    /\ c_cur = 0
    /\ time_str = 0
    /\ sec_i = 0
    /\ out = <<>>
    /\ pc = "tags"

NextLoop == ResolveTag \/ TagsDone

SpecLoop == InitLoop /\ [][NextLoop]_vars

(***************************************************************************)
(* The written document, read back: its sections and their event lines.    *)
(***************************************************************************)
RECURSIVE DocFrom(_, _, _)
DocFrom(doc, k, cur) ==
    IF k > Len(doc) THEN <<cur>>
    ELSE IF doc[k] = Delimiter THEN <<cur>> \o DocFrom(doc, k + 1, <<>>)
    ELSE DocFrom(doc, k + 1, Append(cur, doc[k]))

DocSections == DocFrom(out, 1, <<>>)

IsEvent(l) == "time" \in DOMAIN l

Events(sec) == SelectSeq(sec, IsEvent)

NonDecreasing(sec) == \A k \in 1..(Len(sec) - 1) : sec[k].time <= sec[k + 1].time

AfterDefaults == pc \in {"tags", "cues", "write", "done"}

Categories == <<"paragraph", "emotion", "image", "pose", "phoneme">>

IsImg(tag) == tag.type \in {"image", "image_auto"}

(***************************************************************************)
(* C1                                                                      *)
(***************************************************************************)
Chronological(vw) ==
    /\ \A i, j \in 1..Len(vw) : i < j => vw[i].start <= vw[j].start
    /\ \A i \in 1..Len(vw) : vw[i].start <= vw[Len(vw)].end

CuesChronological(cues) ==
    \A i, j \in 1..Len(cues) : i < j => cues[i].start <= cues[j].start

RECURSIVE PrevImgLine(_)
PrevImgLine(k) ==
    IF k = 0 THEN -1
    ELSE IF IsImg(tags[k]) THEN tags[k].l_idx
    ELSE PrevImgLine(k - 1)

\* the tags among tags[1..m] that are image or image_auto on a line other than
\* the line of the image tag before them
Transitions(m) ==
    {k \in 1..m : IsImg(tags[k]) /\ tags[k].l_idx # PrevImgLine(k - 1)}

\* C2: over any ordered tag stream, pose is the number of image/image_auto
\* tags whose line differs from the last image line, modulo 5, and the pose
\* events read 0,1,2,3,4,0,1,...
C2_PoseCycles ==
    AfterDefaults =>
        LET n == Cardinality(Transitions(t_cur))
        IN /\ pose = n % 5
           /\ Len(sections[3]) = n + 1
           /\ \A k \in 1..(n + 1) : sections[3][k].val = DecStr((k - 1) % 5)

C2_Witness ==
    /\ pc = "tags"
    /\ t_cur = 6
    /\ Len(sections[3]) = 6
    /\ pose = 0
    /\ \E k \in 1..6 : tags[k].type = "emotion"

(***************************************************************************)
(* C3                                                                      *)
(***************************************************************************)
EmptyRun ==
    pc = "done" /\ text = <<>> /\ vosk_words = <<>> /\ rhubarb_data = <<>>

ScenarioRun == text = ScenarioText /\ (AfterDefaults => vosk_words = ScenarioWords)

\* C4 as stated: in the scenario the paragraph index is 0 throughout and the
\* paragraph section is its baseline line only.
C4_SingleParagraph ==
    ScenarioRun =>
        /\ current_para_idx = 0
        /\ pc = "done" => DocSections[1] = <<Line(0, "paragraph", "0")>>

\* C4 amended: in the scenario the paragraph index is 0 on lines 0 and 1 and
\* 1 on the empty line 2 that follows the final newline; the paragraph
\* section is the baseline line and 1.500,paragraph,1.
C4_TrailingNewlineParagraph ==
    ScenarioRun =>
        /\ \A k \in 1..Len(tags) :
              tags[k].p_idx = (IF tags[k].l_idx = 2 THEN 1 ELSE 0)
        /\ current_para_idx = (IF l_cur = 3 THEN 1 ELSE 0)
        /\ pc = "done" => DocSections[1] = << Line(0, "paragraph", "0"),
                                             Line(1500, "paragraph", "1") >>

C4_Witness == ScenarioRun /\ pc = "done" /\ Len(tags) = 5 /\ Len(words) = 4

\* C5 as stated: in the scenario pose is 0 while line 0 is the current line
\* and 1 once line 1's transition has been processed.
C5_PoseOneAtLineOne ==
    (ScenarioRun /\ AfterDefaults) =>
        /\ last_l_idx = 0 => pose = 0
        /\ last_l_idx = 1 => pose = 1

\* C5 amended: in the scenario line 0's end-of-line tag already advances pose
\* to 1, line 1's transition makes it 2 and the empty line 2 makes it 3; the
\* pose section reads 0.000 0, 1.000 1, 1.000 2, 1.500 3.
C5_PoseTwoAtLineOne ==
    (ScenarioRun /\ AfterDefaults) =>
        /\ pose = last_l_idx + 1
        /\ pc = "done" => DocSections[4] = << Line(0, "pose", "0"),
                                             Line(1000, "pose", "1"),
                                             Line(1000, "pose", "2"),
                                             Line(1500, "pose", "3") >>

C5_Witness == ScenarioRun /\ pc = "tags" /\ last_l_idx = 1 /\ pose = 2

(***************************************************************************)
(* C6                                                                      *)
(***************************************************************************)
\* the time the claim gives a tag, for a non-empty timed-word list
ClampedTime(tag) ==
    IF tag.word_idx >= Len(vosk_words) THEN vosk_words[Len(vosk_words)].end
    ELSE vosk_words[tag.word_idx + 1].start

EmotionTags(m) == SelectSeq(SubSeq(tags, 1, m), LAMBDA tag : tag.type = "emotion")

\* C6: with a non-empty timed-word list, a tag whose word index is past the
\* end has the last word's end time and any other tag the start time of its
\* word: the time just formatted, and the time of every emotion event.
C6_Clamping ==
    (pc = "tags" /\ Len(vosk_words) > 0) =>
        /\ t_cur > 0 => time_str = Fmt3(ClampedTime(tags[t_cur]))
        /\ Len(sections[1]) = Len(EmotionTags(t_cur)) + 1
        /\ \A k \in 1..Len(EmotionTags(t_cur)) :
              sections[1][k + 1].time = Fmt3(ClampedTime(EmotionTags(t_cur)[k]))

C6_Witness ==
    /\ pc = "tags"
    /\ Len(vosk_words) = 1
    /\ t_cur > 1
    /\ tags[t_cur].word_idx > Len(vosk_words)
    /\ tags[t_cur].type = "emotion"
    /\ tags[1].word_idx < Len(vosk_words)
    /\ time_str = 500

(***************************************************************************)
(* C7                                                                      *)
(***************************************************************************)
\* what the parser scans, in order: each line's tokens, then the line's end
LineItems(l) ==
    LET toks == Tokens(lines[l + 1])
    IN [k \in 1..(Len(toks) + 1) |->
           IF k <= Len(toks) THEN [tok |-> toks[k], eol |-> FALSE, l |-> l]
           ELSE [tok |-> <<>>, eol |-> TRUE, l |-> l]]

RECURSIVE ItemsFrom(_)
ItemsFrom(l) == IF l >= Len(lines) THEN <<>> ELSE LineItems(l) \o ItemsFrom(l + 1)

Items == ItemsFrom(0)

IsPlain(it) == ~it.eol /\ ~IsAngle(it.tok) /\ ~IsSquare(it.tok)

Alphanumeric(c) == c \in Letters \cup {"0", "1"}

StripNonAlnum(tok) == SelectSeq(tok, Alphanumeric)

StripNonWord(tok) == SelectSeq(tok, IsWordChar)

\* a bracketed tag, a recognized emotion tag or a line end: what appends a tag
IsTagItem(it) ==
    \/ it.eol
    \/ ~it.eol /\ IsSquare(it.tok)
    \/ ~it.eol /\ IsAngle(it.tok) /\ EmotionName(it.tok) \in DOMAIN emotions_map

TagPositions ==
    SelectSeq([k \in 1..Len(Items) |-> k], LAMBDA k : IsTagItem(Items[k]))

ParserReturned == pc = "parse" /\ l_cur = Len(lines)

\* every tag's word index is the number of words appended before it
TagsCountWords(IsWord(_)) ==
    /\ Len(tags) = Len(TagPositions)
    /\ \A k \in 1..Len(tags) :
          tags[k].word_idx =
              Cardinality({j \in 1..(TagPositions[k] - 1) : IsWord(Items[j])})

AlnumWord(it) == IsPlain(it) /\ StripNonAlnum(it.tok) # <<>>

WordCharWord(it) == IsPlain(it) /\ StripNonWord(it.tok) # <<>>

\* C7 as stated: the words returned are as many as the plain tokens that are
\* non-empty once their non-alphanumeric characters are stripped, and every
\* tag's word index is the number of such tokens before it.
C7_WordCountAlnum ==
    ParserReturned =>
        /\ Len(words) = Cardinality({j \in 1..Len(Items) : AlnumWord(Items[j])})
        /\ current_word_idx = Len(words)
        /\ TagsCountWords(AlnumWord)

\* C7 amended: the words returned are as many as the plain tokens that are
\* non-empty once every character other than a letter, a digit or an
\* underscore is stripped, and every tag's word index is the number of such
\* tokens before it; punctuation-only tokens, bracketed tags and unrecognized
\* emotion tags add no word.
C7_WordCountWordChars ==
    ParserReturned =>
        /\ Len(words) = Cardinality({j \in 1..Len(Items) : WordCharWord(Items[j])})
        /\ current_word_idx = Len(words)
        /\ TagsCountWords(WordCharWord)

C7_Witness ==
    /\ ParserReturned
    /\ words = << <<"_">> >>
    /\ \E j \in 1..Len(Items) : IsPlain(Items[j]) /\ StripNonWord(Items[j].tok) = <<>>
    /\ \E k \in 1..Len(tags) : tags[k].word_idx = 0
    /\ \E k \in 1..Len(tags) : tags[k].word_idx = 1

RunStarts(sec) ==
    SelectSeq([k \in 1..Len(sec) |-> k],
              LAMBDA k : k = 1 \/ sec[k].val # sec[k - 1].val)

RunCollapse(sec) == [j \in 1..Len(RunStarts(sec)) |-> sec[RunStarts(sec)[j]]]

\* C9: the events written for a section are the consecutive-run collapse of
\* its raw list: the first event of every run of equal values, in order; no
\* two adjacent written events have equal value.
C9_RunCollapse ==
    \A i \in 0..(sec_i - 1) :
        LET kept == Events(DocSections[i + 1])
        IN /\ kept = RunCollapse(sections[i])
           /\ \A k \in 1..(Len(kept) - 1) : kept[k].val # kept[k + 1].val

C9_Witness ==
    /\ pc = "done"
    /\ Len(sections[1]) = 3
    /\ sections[1][2].val = "1"
    /\ sections[1][3].val = "0"
    /\ Len(Events(DocSections[2])) = 3
    /\ Len(sections[2]) = 3
    /\ Len(Events(DocSections[3])) = 2

(***************************************************************************)
(* C10                                                                     *)
(***************************************************************************)
Last(sec) == sec[Len(sec)]

\* C10: on a tag list made by the parser, a step of the tag loop that appends
\* a paragraph event appends an image event and a pose event with the same
\* time stamp.
C10_ParagraphWithImage ==
    [][ Len(sections'[0]) > Len(sections[0]) =>
           /\ Len(sections'[2]) = Len(sections[2]) + 1
           /\ Len(sections'[3]) = Len(sections[3]) + 1
           /\ Last(sections'[2]).time = Last(sections'[0]).time
           /\ Last(sections'[3]).time = Last(sections'[0]).time ]_vars

C10_Witness ==
    /\ pc = "tags"
    /\ Len(sections[0]) = 3
    /\ Last(sections[0]).val = "1"
    /\ Last(sections[0]).time > 0
    /\ Last(sections[2]).time = Last(sections[0]).time

====
